---------------------------- MODULE Spec2Model ----------------------------
(***************************************************************************)
(* Model of the whisky-club report pipeline.                               *)
(*                                                                         *)
(*   src/Data_Loading.py             load_whisky_data                      *)
(*   src/whisky_report_generator.py  calculate_attendee_correlations,      *)
(*                                   find_largest_score_differences,       *)
(*                                   generate_personal_whisky_report       *)
(*                                                                         *)
(* A DataFrame is a sequence of records (one record per row, one field per *)
(* column that a modelled statement reads).  A missing cell (NaN) is the   *)
(* empty tuple, a present cell v is the 1-tuple <<v>>, for the columns     *)
(* that can hold NaN (Whisky_Region, Whisky_Age_Corrected); the other      *)
(* columns hold plain values.  Scores are integers.                        *)
(***************************************************************************)
EXTENDS Integers, Sequences, FiniteSets, TLC

VARIABLES
    file_exists,   \* os.path.exists('Master Data File.xlsx')
    sheets_ok,     \* pd.read_excel finds both sheets and the named columns
    guest_col,     \* the Scores sheet has a 'Guest' column
    scores_df,     \* the Scores sheet
    whiskies_df,   \* the Whiskies sheet
    opts,          \* keyword arguments of the load_whisky_data call
    data,          \* value returned by load_whisky_data
    attendee_name,         \* argument of the view functions and of the report
    min_common_whiskies,   \* argument of calculate_attendee_correlations
    correlations_df,       \* outcome of calculate_attendee_correlations
    differences_df,        \* outcome of find_largest_score_differences
    scores_over_time,      \* the attendee's rows, sorted for the trend chart
    moving_avg,            \* the trend series
    files,                 \* chart images in the working directory
    documents,             \* report documents in the working directory
    pdf,                   \* chart images embedded in the FPDF object so far
    min_distillery_count,  \* argument of generate_personal_whisky_report
    filtered_distilleries, \* distillery groups kept for top/bottom selection
    filtered_regions,      \* region groups kept for top/bottom selection
    result,                \* value returned by generate_personal_whisky_report
    error,                 \* the exception generate_personal_whisky_report caught
    pc             \* position of the caller

workbook == <<file_exists, sheets_ok, guest_col, scores_df, whiskies_df>>
views == <<attendee_name, min_common_whiskies, correlations_df, differences_df,
           scores_over_time, moving_avg>>
disk == <<files, documents>>
aggregates == <<min_distillery_count, filtered_distilleries, filtered_regions>>
vars == <<workbook, opts, data, views, aggregates, disk, pdf, result, error, pc>>

-----------------------------------------------------------------------------
(* Bounds of the model. *)

MaxScoreRows == 2
MaxWhiskyRows == 2
MaxViewRows == 3
MaxTrendRows == 11

(* Input domains. *)
WhiskyIds == {1, 2}
LoaderAttendees == {"A"}
GuestFlags == {0, 1}
LoaderScores == {1, 3}
Regions == {"USA", "Islay"}
Ages == {12}
Thresholds == {-1, 0, 2, 3}
RegionMinimums == {0, 2}

NaN == <<>>
isna(cell) == cell = NaN

SeqsUpTo(S, n) == UNION {[1..k -> S] : k \in 0..n}

ScoreRows(gc) ==
    IF gc
    THEN [Whisky_ID : WhiskyIds, Attendee : LoaderAttendees,
          Guest : GuestFlags, Whisky_Score : LoaderScores]
    ELSE [Whisky_ID : WhiskyIds, Attendee : LoaderAttendees,
          Whisky_Score : LoaderScores]

WhiskyRows ==
    [Whisky_ID : WhiskyIds,
     Whisky_Region : {<<r>> : r \in Regions},
     Whisky_Age_Corrected : {NaN} \cup {<<a>> : a \in Ages}]

Options ==
    [remove_guests : BOOLEAN, remove_USwhiskies : BOOLEAN,
     remove_thresh : Thresholds, pointscale : BOOLEAN,
     fill_missing_age : BOOLEAN, min_whiskies_per_region : RegionMinimums]

-----------------------------------------------------------------------------
(* DataFrame helpers. *)

\* the concatenation of a sequence of sequences (by halves, to keep the
\* evaluation shallow on a table of a hundred rows)
Flatten(ss) ==
    LET cat[lo \in 1..(Len(ss) + 1), hi \in 0..Len(ss)] ==
            IF lo > hi THEN <<>>
            ELSE IF lo = hi THEN ss[lo]
            ELSE cat[lo, (lo + hi) \div 2] \o cat[(lo + hi) \div 2 + 1, hi]
    IN  cat[1, Len(ss)]

\* the sum of term(row) over the rows from..to of a table
SumIn(c, from, to, term(_)) ==
    LET sum[lo \in 1..(Len(c) + 1), hi \in 0..Len(c)] ==
            IF lo > hi THEN 0
            ELSE IF lo = hi THEN term(c[lo])
            ELSE sum[lo, (lo + hi) \div 2] + sum[(lo + hi) \div 2 + 1, hi]
    IN  sum[from, to]

SumOver(c, term(_)) == SumIn(c, 1, Len(c), term)

SumScores(df) == SumOver(df, LAMBDA r : r.Whisky_Score)

Range(s) == {s[i] : i \in DOMAIN s}

-----------------------------------------------------------------------------
(* load_whisky_data, src/Data_Loading.py *)

\* pd.merge(scores_df, whiskies_df, on='Whisky_ID', how='left'): every score
\* row, in sheet order, once per metadata row with its Whisky_ID (in sheet
\* order), or once with NaN metadata when there is none.  The field src is
\* the position of the score row in the Scores sheet; no statement of the
\* program reads it, the properties use it to name "the original row".
MatchesOf(s, w) == SelectSeq(w, LAMBDA r : r.Whisky_ID = s.Whisky_ID)

NoMatch == [Whisky_Region |-> NaN, Whisky_Age_Corrected |-> NaN]

JoinRow(s, src, m) ==
    [c \in (DOMAIN s) \cup {"src", "Whisky_Region", "Whisky_Age_Corrected"} |->
        IF c = "src" THEN src
        ELSE IF c = "Whisky_Region" THEN m.Whisky_Region
        ELSE IF c = "Whisky_Age_Corrected" THEN m.Whisky_Age_Corrected
        ELSE s[c]]

\* how='inner' instead of how='left': a score without metadata is dropped
JoinedRowsInner(s, src, w) ==
    LET ms == MatchesOf(s, w)
    IN  [k \in 1..Len(ms) |-> JoinRow(s, src, ms[k])]

JoinedRows(s, src, w) ==
    LET ms == MatchesOf(s, w)
    IN  IF ms = <<>>
        THEN <<JoinRow(s, src, NoMatch)>>
        ELSE [k \in 1..Len(ms) |-> JoinRow(s, src, ms[k])]

merge(s, w) == Flatten([i \in 1..Len(s) |-> JoinedRows(s[i], i, w)])

\* == 1 written for != 1: the member rows are dropped instead
drop_guests_inverted(d, gc, o) ==
    IF o.remove_guests /\ gc
    THEN SelectSeq(d, LAMBDA r : r.Guest = 1)
    ELSE d

\* data[data['Guest'] != 1], only if the column is there
drop_guests(d, gc, o) ==
    IF o.remove_guests /\ gc
    THEN SelectSeq(d, LAMBDA r : r.Guest # 1)
    ELSE d

\* data[data['Whisky_Region'] != 'USA']  (NaN != 'USA' is True)
drop_US(d, o) ==
    IF o.remove_USwhiskies
    THEN SelectSeq(d, LAMBDA r : r.Whisky_Region # <<"USA">>)
    ELSE d

RowsOf(d, id) == SelectSeq(d, LAMBDA r : r.Whisky_ID = id)

\* avg_scores[avg_scores < remove_thresh].index: mean < T, i.e. sum < T * n
low_score_whiskies(d, T) ==
    {id \in {r.Whisky_ID : r \in Range(d)} :
        SumScores(RowsOf(d, id)) < T * Len(RowsOf(d, id))}

\* only the per-row filter: the per-whisky mean is never looked at
drop_outliers_rows_only(d, o) ==
    IF o.remove_thresh > 0
    THEN SelectSeq(d, LAMBDA r : r.Whisky_Score >= o.remove_thresh)
    ELSE d

drop_outliers(d, o) ==
    IF o.remove_thresh > 0
    THEN LET low == low_score_whiskies(d, o.remove_thresh)
             d1 == SelectSeq(d, LAMBDA r : r.Whisky_ID \notin low)
         IN  SelectSeq(d1, LAMBDA r : r.Whisky_Score >= o.remove_thresh)
    ELSE d

\* the parentheses forgotten: Whisky_Score - remove_thresh * 10
rescale_unparenthesised(d, o) ==
    IF o.pointscale
    THEN [k \in 1..Len(d) |->
            [d[k] EXCEPT !.Whisky_Score = @ - o.remove_thresh * 10]]
    ELSE d

\* data['Whisky_Score'] = (data['Whisky_Score'] - remove_thresh) * 10
rescale(d, o) ==
    IF o.pointscale
    THEN [k \in 1..Len(d) |->
            [d[k] EXCEPT !.Whisky_Score = (@ - o.remove_thresh) * 10]]
    ELSE d

\* groupby('Whisky_Region')['Whisky_ID'].nunique(); NaN regions form no group
\* count() instead of nunique(): the rows of the region, not its whiskies
region_count_rows(d, reg) ==
    Len(SelectSeq(d, LAMBDA x : x.Whisky_Region = reg))

region_count(d, reg) ==
    Cardinality({r.Whisky_ID : r \in {x \in Range(d) : x.Whisky_Region = reg}})

valid_regions(d, m) ==
    {reg \in {r.Whisky_Region : r \in Range(d)} \ {NaN} : region_count(d, reg) >= m}

drop_small_regions(d, o) ==
    IF o.min_whiskies_per_region > 0
    THEN LET valid == valid_regions(d, o.min_whiskies_per_region)
         IN  SelectSeq(d, LAMBDA r : r.Whisky_Region \in valid)
    ELSE d

\* the two statements swapped: fillna(-1) first, the flag from the filled column
fill_age_flag_after_fill(d, o) ==
    IF o.fill_missing_age
    THEN [k \in 1..Len(d) |->
            [c \in (DOMAIN d[k]) \cup {"Age_Missing"} |->
                IF c = "Age_Missing" THEN 0
                ELSE IF c = "Whisky_Age_Corrected"
                THEN (IF isna(d[k].Whisky_Age_Corrected) THEN <<-1>> ELSE d[k][c])
                ELSE d[k][c]]]
    ELSE d

\* Age_Missing = isna().astype(int), then fillna(-1)
fill_age(d, o) ==
    IF o.fill_missing_age
    THEN [k \in 1..Len(d) |->
            [c \in (DOMAIN d[k]) \cup {"Age_Missing"} |->
                IF c = "Age_Missing"
                THEN (IF isna(d[k].Whisky_Age_Corrected) THEN 1 ELSE 0)
                ELSE IF c = "Whisky_Age_Corrected"
                THEN (IF isna(d[k].Whisky_Age_Corrected) THEN <<-1>> ELSE d[k][c])
                ELSE d[k][c]]]
    ELSE d

\* The table before each optional transform.
Joined == merge(scores_df, whiskies_df)
BeforeOutliers(o) == drop_US(drop_guests(Joined, guest_col, o), o)
BeforeRescale(o) == drop_outliers(BeforeOutliers(o), o)
BeforeRegions(o) == rescale(BeforeRescale(o), o)
BeforeAgeFill(o) == drop_small_regions(BeforeRegions(o), o)

None == [none |-> TRUE, rows |-> <<>>]
Frame(d) == [none |-> FALSE, rows |-> d]

load_whisky_data(o) ==
    IF ~file_exists THEN None          \* line 34: return None
    ELSE IF ~sheets_ok THEN None       \* read_excel raises, line 103: return None
    ELSE Frame(fill_age(BeforeAgeFill(o), o))

-----------------------------------------------------------------------------
(* Loader specification: a workbook, then one call of load_whisky_data. *)

NoOpts ==
    [remove_guests |-> FALSE, remove_USwhiskies |-> FALSE, remove_thresh |-> 0,
     pointscale |-> FALSE, fill_missing_age |-> FALSE,
     min_whiskies_per_region |-> 0]

Workbook ==
    \/ /\ file_exists = FALSE          \* no workbook: nothing to read
       /\ sheets_ok = FALSE
       /\ guest_col = FALSE
       /\ scores_df = <<>>
       /\ whiskies_df = <<>>
    \/ /\ file_exists = TRUE           \* a workbook read_excel rejects
       /\ sheets_ok = FALSE
       /\ guest_col = FALSE
       /\ scores_df = <<>>
       /\ whiskies_df = <<>>
    \/ /\ file_exists = TRUE
       /\ sheets_ok = TRUE
       /\ guest_col \in BOOLEAN
       /\ scores_df \in SeqsUpTo(ScoreRows(guest_col), MaxScoreRows)
       /\ whiskies_df \in SeqsUpTo(WhiskyRows, MaxWhiskyRows)

\* src/whisky_report_generator.py:149: min_distillery_count: int = 5
default_min_distillery_count == 5

NotCalled == [raised |-> FALSE, exc |-> "", rows |-> <<>>]

NoViews ==
    /\ attendee_name = ""
    /\ min_common_whiskies = 0
    /\ correlations_df = NotCalled
    /\ differences_df = NotCalled
    /\ scores_over_time = <<>>
    /\ moving_avg = <<>>
    /\ files = {}
    /\ documents = {}
    /\ pdf = {}
    /\ min_distillery_count = default_min_distillery_count
    /\ filtered_distilleries = <<>>
    /\ filtered_regions = <<>>
    /\ result = "running"
    /\ error = ""

Init ==
    /\ Workbook
    /\ opts = NoOpts
    /\ data = None
    /\ NoViews
    /\ pc = "call"

Load ==
    /\ pc = "call"
    /\ \E o \in Options :
        /\ opts' = o
        /\ data' = load_whisky_data(o)
    /\ pc' = "returned"
    /\ UNCHANGED <<workbook, aggregates, views, disk, pdf, result, error>>

Next == Load

Spec == Init /\ [][Next]_vars

-----------------------------------------------------------------------------
(* Properties of load_whisky_data. *)

Returned == pc = "returned" /\ ~data.none

IdsOf(d) == {r.Whisky_ID : r \in Range(d)}

UniqueIds(w) == \A i, j \in DOMAIN w : w[i].Whisky_ID = w[j].Whisky_ID => i = j

\* C1 (as claimed): with every optional transform disabled, the loaded table
\* has exactly as many rows as the Scores sheet, for every workbook the
\* loader accepts.
C1_RowCountEqualsScores ==
    (Returned /\ opts = NoOpts) => Len(data.rows) = Len(scores_df)

\* C1 (amended): when no two rows of the Whiskies sheet share a Whisky_ID,
\* the loaded table with every optional transform disabled is the Scores
\* sheet row for row: row k comes from score row k, so none is dropped and
\* none is duplicated, whether or not its Whisky_ID has a metadata row.
C1_LeftJoinKeepsScores ==
    (Returned /\ opts = NoOpts /\ UniqueIds(whiskies_df)) =>
        /\ Len(data.rows) = Len(scores_df)
        /\ \A k \in DOMAIN data.rows :
            /\ data.rows[k].src = k
            /\ data.rows[k].Whisky_ID = scores_df[k].Whisky_ID
            /\ data.rows[k].Whisky_Score = scores_df[k].Whisky_Score

\* a score with metadata and a score without, joined with nothing else applied
C1_Witness ==
    /\ Returned /\ opts = NoOpts /\ UniqueIds(whiskies_df)
    /\ \E i \in DOMAIN scores_df : scores_df[i].Whisky_ID \notin IdsOf(whiskies_df)
    /\ \E i \in DOMAIN scores_df : scores_df[i].Whisky_ID \in IdsOf(whiskies_df)

\* C2: with remove_thresh = T > 0 and no rescaling, every returned row has
\* score >= T, every whisky still present has mean score >= T, and a whisky
\* whose mean over the rows entering the outlier step is below T has no row
\* left, not even one whose own score is >= T.
C2_OutlierRemoval ==
    (Returned /\ opts.remove_thresh > 0 /\ ~opts.pointscale) =>
        LET T == opts.remove_thresh
            d == data.rows
            pre == BeforeOutliers(opts)
        IN  /\ \A k \in DOMAIN d : d[k].Whisky_Score >= T
            /\ \A id \in IdsOf(d) :
                SumScores(RowsOf(d, id)) >= T * Len(RowsOf(d, id))
            /\ \A id \in IdsOf(pre) :
                SumScores(RowsOf(pre, id)) < T * Len(RowsOf(pre, id))
                    => RowsOf(d, id) = <<>>

\* a whisky with mean below T that had a row scoring at least T
C2_Witness ==
    /\ Returned /\ opts.remove_thresh > 0 /\ ~opts.pointscale
    /\ LET T == opts.remove_thresh
           pre == BeforeOutliers(opts)
       IN  \E id \in IdsOf(pre) :
            /\ SumScores(RowsOf(pre, id)) < T * Len(RowsOf(pre, id))
            /\ \E k \in DOMAIN pre :
                pre[k].Whisky_ID = id /\ pre[k].Whisky_Score >= T

\* C3: with remove_guests the load of a readable workbook succeeds; if the
\* Scores sheet has a Guest column no returned row has Guest = 1, and if it
\* has none the result is the one the same call gives without remove_guests.
C3_NoGuestsLeft ==
    (pc = "returned" /\ opts.remove_guests /\ file_exists /\ sheets_ok) =>
        /\ ~data.none
        /\ guest_col => \A k \in DOMAIN data.rows : data.rows[k].Guest # 1
        /\ ~guest_col =>
            data = load_whisky_data([opts EXCEPT !.remove_guests = FALSE])

\* a guest row was in the sheet and member rows are returned
C3_Witness ==
    /\ Returned /\ opts.remove_guests /\ guest_col
    /\ \E i \in DOMAIN scores_df : scores_df[i].Guest = 1
    /\ data.rows # <<>>

OriginalScore(r) == scores_df[r.src].Whisky_Score

\* C4 (as claimed): with pointscale every returned row has score
\* (original - T) * 10, T being remove_thresh when outlier removal ran and 0
\* when it was disabled.
C4_RescaledByRemovalThreshold ==
    (Returned /\ opts.pointscale) =>
        LET T == IF opts.remove_thresh > 0 THEN opts.remove_thresh ELSE 0
        IN  \A k \in DOMAIN data.rows :
                data.rows[k].Whisky_Score = (OriginalScore(data.rows[k]) - T) * 10

\* C4 (amended): with pointscale every returned row has score
\* (original - remove_thresh) * 10, whatever the sign of remove_thresh: a
\* value <= 0 disables outlier removal and is still subtracted.
C4_RescaledByArgument ==
    (Returned /\ opts.pointscale) =>
        \A k \in DOMAIN data.rows :
            data.rows[k].Whisky_Score =
                (OriginalScore(data.rows[k]) - opts.remove_thresh) * 10

\* rescaled rows after an outlier removal that kept some and dropped some
C4_Witness ==
    /\ Returned /\ opts.pointscale /\ opts.remove_thresh > 0
    /\ data.rows # <<>>
    /\ Len(data.rows) < Len(BeforeOutliers(opts))

\* C5: with fill_missing_age the returned table has the rows that entered the
\* step; none has a NaN age; Age_Missing is 1 exactly on the rows whose age
\* was NaN; those rows have age -1 and the others keep their age.
C5_AgeFill ==
    (Returned /\ opts.fill_missing_age) =>
        LET d == data.rows
            pre == BeforeAgeFill(opts)
        IN  /\ Len(d) = Len(pre)
            /\ \A k \in DOMAIN d :
                /\ ~isna(d[k].Whisky_Age_Corrected)
                /\ d[k].Age_Missing \in {0, 1}
                /\ d[k].Age_Missing = 1 <=> isna(pre[k].Whisky_Age_Corrected)
                /\ isna(pre[k].Whisky_Age_Corrected)
                    => d[k].Whisky_Age_Corrected = <<-1>>
                /\ ~isna(pre[k].Whisky_Age_Corrected)
                    => d[k].Whisky_Age_Corrected = pre[k].Whisky_Age_Corrected

\* a filled row next to a row that had an age
C5_Witness ==
    /\ Returned /\ opts.fill_missing_age
    /\ \E k \in DOMAIN data.rows : data.rows[k].Age_Missing = 1
    /\ \E k \in DOMAIN data.rows : data.rows[k].Age_Missing = 0

-----------------------------------------------------------------------------
(* The derived views, src/whisky_report_generator.py.  The views read the   *)
(* columns Attendee, Whisky_ID and Whisky_Score of the loaded table; the    *)
(* description, distillery and age they copy into a difference row are not  *)
(* modelled.                                                                *)

Abs(x) == IF x < 0 THEN -x ELSE x
Max(a, b) == IF a > b THEN a ELSE b
Min(a, b) == IF a < b THEN a ELSE b
MinOf(S) == CHOOSE x \in S : \A y \in S : x <= y

\* DataFrame.sort_values: the rows in key order, rows of equal key in their
\* original order (numpy sorts the short arrays of a report by insertion).
\* Before(x, y): x has to come strictly before y.  Row i lands after the rows
\* that have to come before it and after the earlier rows of equal key.
sort_values(rows, Before(_, _)) ==
    LET place(i) ==
            1 + Cardinality({j \in DOMAIN rows \ {i} :
                    \/ Before(rows[j], rows[i])
                    \/ j < i /\ ~Before(rows[i], rows[j])})
    IN  [p \in 1..Len(rows) |-> rows[CHOOSE i \in DOMAIN rows : place(i) = p]]

\* Series.unique(): the distinct values in order of first appearance
unique(values) ==
    LET first == SelectSeq([i \in 1..Len(values) |-> i],
                           LAMBDA i : \A j \in 1..(i - 1) : values[j] # values[i])
    IN  [k \in 1..Len(first) |-> values[first[k]]]

ScoresOf(d, name) == SelectSeq(d, LAMBDA r : r.Attendee = name)

\* data[data['Attendee'] != attendee_name]['Attendee'].unique()
other_attendees(d, name) ==
    LET others == SelectSeq(d, LAMBDA r : r.Attendee # name)
    IN  unique([k \in 1..Len(others) |-> others[k].Attendee])

\* pd.merge(target_scores, other_scores, on='Whisky_ID'): the inner join, one
\* row per pair of a target row and an other row with the same Whisky_ID
PairsWith(t, o) ==
    LET ms == SelectSeq(o, LAMBDA r : r.Whisky_ID = t.Whisky_ID)
    IN  [k \in 1..Len(ms) |->
            [Whisky_ID |-> t.Whisky_ID,
             Whisky_Score_target |-> t.Whisky_Score,
             Whisky_Score_other |-> ms[k].Whisky_Score]]

common_whiskies(target_scores, other_scores) ==
    Flatten([k \in 1..Len(target_scores) |->
                PairsWith(target_scores[k], other_scores)])

\* Series.corr (Pearson).  r = num / sqrt(den) with
\*   num = n*Sxy - Sx*Sy,  den = (n*Sxx - Sx^2) * (n*Syy - Sy^2),
\* kept as the pair <<num, den>>; NaN when den = 0 (fewer than two rows, or
\* one of the two columns constant).
corr(c) ==
    LET n == Len(c)
        sx == SumOver(c, LAMBDA r : r.Whisky_Score_target)
        sy == SumOver(c, LAMBDA r : r.Whisky_Score_other)
        sxx == SumOver(c, LAMBDA r : r.Whisky_Score_target * r.Whisky_Score_target)
        syy == SumOver(c, LAMBDA r : r.Whisky_Score_other * r.Whisky_Score_other)
        sxy == SumOver(c, LAMBDA r : r.Whisky_Score_target * r.Whisky_Score_other)
        den == (n * sxx - sx * sx) * (n * syy - sy * sy)
    IN  IF den = 0 THEN NaN ELSE <<n * sxy - sx * sy, den>>

\* r1 > r2 for two correlations that are not NaN
CorrGreater(r1, r2) ==
    IF r1[1] >= 0 /\ r2[1] < 0 THEN TRUE
    ELSE IF r1[1] < 0 /\ r2[1] >= 0 THEN FALSE
    ELSE IF r1[1] >= 0
         THEN r1[1] * r1[1] * r2[2] > r2[1] * r2[1] * r1[2]
         ELSE r1[1] * r1[1] * r2[2] < r2[1] * r2[1] * r1[2]

\* sort_values('Correlation', ascending=False): NaN rows go last
CorrBefore(x, y) ==
    /\ ~isna(x.Correlation)
    /\ isna(y.Correlation) \/ CorrGreater(x.Correlation, y.Correlation)

KeyError == [raised |-> TRUE, exc |-> "KeyError", rows |-> <<>>]
Table(rows) == [raised |-> FALSE, exc |-> "", rows |-> rows]

\* lines 87-103: one row per other attendee whose join is long enough
correlation_rows(d, name, m) ==
    LET target_scores == ScoresOf(d, name)
        others == other_attendees(d, name)
        common(k) == common_whiskies(target_scores, ScoresOf(d, others[k]))
        row(k) == LET c == common(k)
                  IN  IF Len(c) >= m
                      THEN <<[Attendee |-> others[k],
                              Correlation |-> corr(c),
                              Common_Whiskies |-> Len(c)]>>
                      ELSE <<>>
    IN  Flatten([k \in 1..Len(others) |-> row(k)])

\* pd.DataFrame([]) has no column: sort_values('Correlation') raises KeyError
calculate_attendee_correlations(d, name, m) ==
    LET correlations == correlation_rows(d, name, m)
    IN  IF correlations = <<>> THEN KeyError
        ELSE Table(sort_values(correlations, CorrBefore))

\* the condition written >=: the last of several equal differences wins, and
\* a difference of 0 selects a row
ScanStepLastWins(best, target_score, other_row) ==
    LET diff == Abs(target_score - other_row.Whisky_Score)
    IN  IF diff >= best.max_diff
        THEN [max_diff |-> diff, max_diff_row |-> <<other_row>>]
        ELSE best

\* lines 126-133: the scan for the largest difference on one whisky; a later
\* row replaces the current one only if its difference is strictly larger
ScanStep(best, target_score, other_row) ==
    LET diff == Abs(target_score - other_row.Whisky_Score)
    IN  IF diff > best.max_diff
        THEN [max_diff |-> diff, max_diff_row |-> <<other_row>>]
        ELSE best

LargestAmong(target_score, other_scores) ==
    LET upto[k \in 0..Len(other_scores)] ==
            IF k = 0 THEN [max_diff |-> 0, max_diff_row |-> <<>>]
            ELSE ScanStep(upto[k - 1], target_score, other_scores[k])
    IN  upto[Len(other_scores)]

\* lines 118-145: one pass of the loop body for every row of target_scores
difference_rows(d, name) ==
    LET target_scores == ScoresOf(d, name)
        target_score(id) ==
            SelectSeq(target_scores, LAMBDA r : r.Whisky_ID = id)[1].Whisky_Score
        other_scores(id) ==
            SelectSeq(d, LAMBDA r : r.Attendee # name /\ r.Whisky_ID = id)
        row(k) ==
            LET whisky_id == target_scores[k].Whisky_ID
                best == LargestAmong(target_score(whisky_id),
                                     other_scores(whisky_id))
            IN  IF best.max_diff > 0 /\ best.max_diff_row # <<>>
                THEN <<[Whisky_ID |-> whisky_id,
                        Other_Attendee |-> best.max_diff_row[1].Attendee,
                        Target_Score |-> target_score(whisky_id),
                        Other_Score |-> best.max_diff_row[1].Whisky_Score,
                        Absolute_Difference |-> best.max_diff]>>
                ELSE <<>>
    IN  Flatten([k \in 1..Len(target_scores) |-> row(k)])

DiffBefore(x, y) == x.Absolute_Difference > y.Absolute_Difference

\* pd.DataFrame([]).sort_values('Absolute_Difference') raises KeyError
find_largest_score_differences(d, name) ==
    LET differences == difference_rows(d, name)
    IN  IF differences = <<>> THEN KeyError
        ELSE Table(sort_values(differences, DiffBefore))

\* lines 223-224: rolling(window=10, min_periods=1).mean()
window == 10
min_periods == 1

IdBefore(x, y) == x.Whisky_ID < y.Whisky_ID

sort_by_whisky(current_focus) == sort_values(current_focus, IdBefore)

\* min_periods left to its default, the window: no value before a full window
rolling_mean_full_windows_only(rows) ==
    [i \in 1..Len(rows) |->
        IF i < window THEN NaN
        ELSE <<SumIn(rows, i - window + 1, i, LAMBDA r : r.Whisky_Score), window>>]

\* pandas keeps a running sum and count: row i is added, row i - window is
\* removed, and the mean <<sum, count>> (sum / count) is emitted once
\* count >= min_periods
rolling_mean(rows) ==
    LET added(i) == SumIn(rows, 1, i, LAMBDA r : r.Whisky_Score)
        removed(i) == SumIn(rows, 1, Max(0, i - window), LAMBDA r : r.Whisky_Score)
        nobs(i) == i - Max(0, i - window)
    IN  [i \in 1..Len(rows) |->
            IF nobs(i) >= min_periods
            THEN <<added(i) - removed(i), nobs(i)>>
            ELSE NaN]

-----------------------------------------------------------------------------
(* View specification: a loaded table, then one call of a view on it. *)

ViewAttendees == {"A", "B", "C"}
ViewScores == {7, 8, 9}
MinCommons == {0, 1, 2}

ViewRows ==
    [Attendee : ViewAttendees, Whisky_ID : WhiskyIds, Whisky_Score : ViewScores]

\* every table of at most MaxViewRows rows: any order, repeated rows included
SmallTables == SeqsUpTo(ViewRows, MaxViewRows)

\* tables with at most one score per attendee and whisky, in tasting order
\* (whisky by whisky); 0 marks a whisky the attendee did not score
GridCells ==
    <<[Whisky_ID |-> 1, Attendee |-> "A"], [Whisky_ID |-> 1, Attendee |-> "B"],
      [Whisky_ID |-> 1, Attendee |-> "C"], [Whisky_ID |-> 2, Attendee |-> "A"],
      [Whisky_ID |-> 2, Attendee |-> "B"], [Whisky_ID |-> 2, Attendee |-> "C"]>>

GridTable(g) ==
    LET scored == SelectSeq(GridCells, LAMBDA c : g[c] # 0)
    IN  [k \in 1..Len(scored) |->
            [Attendee |-> scored[k].Attendee, Whisky_ID |-> scored[k].Whisky_ID,
             Whisky_Score |-> g[scored[k]]]]

GridTables == {GridTable(g) : g \in [Range(GridCells) -> ViewScores \cup {0}]}

\* one attendee's long history, listed in tasting order or in reverse
TrendScores == {7, 9}

TrendTable(f, reversed) ==
    [k \in DOMAIN f |->
        [Attendee |-> "A",
         Whisky_ID |-> IF reversed THEN Len(f) + 1 - k ELSE k,
         Whisky_Score |-> f[k]]]

TrendTables ==
    {TrendTable(f, reversed) :
        f \in UNION {[1..n -> TrendScores] : n \in (window - 1)..MaxTrendRows},
        reversed \in BOOLEAN}

ViewTables == SmallTables \cup GridTables \cup TrendTables

InitViews ==
    /\ file_exists = TRUE
    /\ sheets_ok = TRUE
    /\ guest_col = FALSE
    /\ scores_df = <<>>
    /\ whiskies_df = <<>>
    /\ opts = NoOpts
    /\ data \in {Frame(t) : t \in ViewTables}
    /\ NoViews
    /\ pc = "call"

Correlations ==
    /\ pc = "call"
    /\ \E name \in ViewAttendees, m \in MinCommons :
        /\ attendee_name' = name
        /\ min_common_whiskies' = m
        /\ correlations_df' = calculate_attendee_correlations(data.rows, name, m)
    /\ pc' = "correlations"
    /\ UNCHANGED <<workbook, aggregates, opts, data, differences_df, scores_over_time,
                   moving_avg, disk, pdf, result, error>>

Differences ==
    /\ pc = "call"
    /\ \E name \in ViewAttendees :
        /\ attendee_name' = name
        /\ differences_df' = find_largest_score_differences(data.rows, name)
    /\ pc' = "differences"
    /\ UNCHANGED <<workbook, aggregates, opts, data, min_common_whiskies, correlations_df,
                   scores_over_time, moving_avg, disk, pdf, result, error>>

\* lines 175-178 and 223-224 of generate_personal_whisky_report
Trend ==
    /\ pc = "call"
    /\ \E name \in ViewAttendees :
        /\ ScoresOf(data.rows, name) # <<>>
        /\ attendee_name' = name
        /\ scores_over_time' = sort_by_whisky(ScoresOf(data.rows, name))
        /\ moving_avg' = rolling_mean(sort_by_whisky(ScoresOf(data.rows, name)))
    /\ pc' = "trend"
    /\ UNCHANGED <<workbook, aggregates, opts, data, min_common_whiskies, correlations_df,
                   differences_df, disk, pdf, result, error>>

NextViews == Correlations \/ Differences \/ Trend

SpecViews == InitViews /\ [][NextViews]_vars

-----------------------------------------------------------------------------
(* Properties of the views. *)

AttendeesOf(d) == {r.Attendee : r \in Range(d)}

\* the whiskies both attendees have a score for
CommonItems(d, a, b) == IdsOf(ScoresOf(d, a)) \cap IdsOf(ScoresOf(d, b))

\* C6: for every table and target, find_largest_score_differences returns a
\* table with at most one row per Whisky_ID, whose Absolute_Difference is at
\* least |target score - other score| for every other attendee's score of
\* that whisky.
C6_OneLargestRowPerWhisky ==
    pc = "differences" =>
        LET rows == differences_df.rows
        IN  /\ ~differences_df.raised
            /\ \A i, j \in DOMAIN rows :
                rows[i].Whisky_ID = rows[j].Whisky_ID => i = j
            /\ \A i \in DOMAIN rows : \A r \in Range(data.rows) :
                (r.Attendee # attendee_name /\ r.Whisky_ID = rows[i].Whisky_ID)
                    => rows[i].Absolute_Difference
                        >= Abs(rows[i].Target_Score - r.Whisky_Score)

\* C7: for every table, target and minimum m, calculate_attendee_correlations
\* returns a table with exactly one row for each other attendee with at least
\* m whiskies in common with the target, carrying that number as
\* Common_Whiskies, no row for anyone else, and the rows in descending order
\* of correlation.
C7_OneRowPerQualifyingAttendee ==
    pc = "correlations" =>
        LET rows == correlations_df.rows
            d == data.rows
            n(p) == Cardinality(CommonItems(d, attendee_name, p))
            rowsOf(p) == {i \in DOMAIN rows : rows[i].Attendee = p}
        IN  /\ ~correlations_df.raised
            /\ \A p \in AttendeesOf(d) \ {attendee_name} :
                /\ n(p) >= min_common_whiskies =>
                    /\ Cardinality(rowsOf(p)) = 1
                    /\ \A i \in rowsOf(p) : rows[i].Common_Whiskies = n(p)
                /\ n(p) < min_common_whiskies => rowsOf(p) = {}
            /\ rowsOf(attendee_name) = {}
            /\ \A i, j \in DOMAIN rows :
                (i < j /\ ~isna(rows[i].Correlation) /\ ~isna(rows[j].Correlation))
                    => ~CorrGreater(rows[j].Correlation, rows[i].Correlation)

SumScoresIn(rows, from, to) ==
    LET sum[k \in (from - 1)..to] ==
            IF k = from - 1 THEN 0 ELSE sum[k - 1] + rows[k].Whisky_Score
    IN  sum[to]

Occurrences(rows, r) == Cardinality({i \in DOMAIN rows : rows[i] = r})

\* C10: the trend series has one element per row of the attendee; the rows
\* are taken in ascending Whisky_ID order; element i (from 1) is the mean
\* <<sum, count>> of the last Min(i, 10) scores up to position i, so it is
\* defined from the first position on; scores 7, 8, 9 give 7, 7.5, 8.
C10_TrailingMovingAverage ==
    pc = "trend" =>
        LET focus == ScoresOf(data.rows, attendee_name)
            s == scores_over_time
        IN  /\ Len(s) = Len(focus)
            /\ Len(moving_avg) = Len(focus)
            /\ \A r \in Range(focus) \cup Range(s) :
                Occurrences(s, r) = Occurrences(focus, r)
            /\ \A i, j \in DOMAIN s : i < j => s[i].Whisky_ID <= s[j].Whisky_ID
            /\ \A i \in DOMAIN s :
                /\ ~isna(moving_avg[i])
                /\ moving_avg[i][2] = Min(i, 10)
                /\ moving_avg[i][1] = SumScoresIn(s, Max(1, i - 9), i)
            /\ [i \in DOMAIN s |-> s[i].Whisky_Score] = <<7, 8, 9>> =>
                /\ moving_avg[1][1] = 7 * moving_avg[1][2]
                /\ 2 * moving_avg[2][1] = 15 * moving_avg[2][2]
                /\ moving_avg[3][1] = 8 * moving_avg[3][2]

\* more rows than the window, given out of Whisky_ID order, and the oldest
\* score differs from the newest, so dropping it changes the mean
C10_Witness ==
    /\ pc = "trend"
    /\ Len(scores_over_time) > 10
    /\ scores_over_time # ScoresOf(data.rows, attendee_name)
    /\ scores_over_time[1].Whisky_Score # scores_over_time[11].Whisky_Score

-----------------------------------------------------------------------------
(* generate_personal_whisky_report, src/whisky_report_generator.py:149-569. *)
(* One action per block of the function; a block that calls matplotlib,     *)
(* seaborn or fpdf either completes or raises, and every exception is       *)
(* caught by the handler at line 567.                                       *)

\* lines 162-169
report_opts ==
    [remove_guests |-> TRUE, remove_USwhiskies |-> FALSE, remove_thresh |-> 0,
     pointscale |-> FALSE, fill_missing_age |-> TRUE,
     min_whiskies_per_region |-> 0]

\* line 285: min_common_whiskies=50
report_min_common == 50

trend_chart == "trend_chart.png"
distillery_chart == "distillery_chart.png"
region_chart == "region_chart.png"

ReportAttendees == {"A", "B", "Z"}

\* line 558: whisky_report_<name, lower case, blanks as underscores>.pdf
output_filename(name) ==
    CASE name = "A" -> "whisky_report_a.pdf"
      [] name = "B" -> "whisky_report_b.pdf"
      [] name = "Z" -> "whisky_report_z.pdf"

\* line 569 written as a return of the document name
except_returns_path(name) == output_filename(name)

\* line 569: return None
except_returns(name) == "None"

\* A club of two: A and B score the whiskies 1..n in tasting order; B may be
\* a guest, and may give every whisky the score A gives it.
ClubSizes == {1, report_min_common - 1, report_min_common}

ScoreOfA(w) == 7 + (w % 3)
ScoreOfB(w, agree) == IF agree THEN ScoreOfA(w) ELSE 7 + ((w + 1) % 3)

ClubScores(n, agree, guestB) ==
    [k \in 1..(2 * n) |->
        LET w == (k + 1) \div 2
        IN  IF k % 2 = 1
            THEN [Whisky_ID |-> w, Attendee |-> "A", Guest |-> 0,
                  Whisky_Score |-> ScoreOfA(w)]
            ELSE [Whisky_ID |-> w, Attendee |-> "B",
                  Guest |-> IF guestB THEN 1 ELSE 0,
                  Whisky_Score |-> ScoreOfB(w, agree)]]

ClubWhiskies(n) ==
    [w \in 1..n |->
        [Whisky_ID |-> w, Whisky_Region |-> <<"Islay">>,
         Whisky_Age_Corrected |-> IF w % 2 = 0 THEN NaN ELSE <<12>>]]

ClubWorkbook ==
    \/ /\ file_exists = FALSE
       /\ sheets_ok = FALSE
       /\ guest_col = FALSE
       /\ scores_df = <<>>
       /\ whiskies_df = <<>>
    \/ /\ file_exists = TRUE
       /\ sheets_ok = FALSE
       /\ guest_col = FALSE
       /\ scores_df = <<>>
       /\ whiskies_df = <<>>
    \/ /\ file_exists = TRUE
       /\ sheets_ok = TRUE
       /\ guest_col = TRUE
       /\ \E n \in ClubSizes, agree \in BOOLEAN, guestB \in BOOLEAN :
            /\ scores_df = ClubScores(n, agree, guestB)
            /\ whiskies_df = ClubWhiskies(n)

InitReport ==
    /\ ClubWorkbook
    /\ opts = report_opts
    /\ data = None
    /\ attendee_name \in ReportAttendees
    /\ min_common_whiskies = report_min_common
    /\ correlations_df = NotCalled
    /\ differences_df = NotCalled
    /\ scores_over_time = <<>>
    /\ moving_avg = <<>>
    /\ files = {}
    /\ documents = {}
    /\ pdf = {}
    /\ min_distillery_count = default_min_distillery_count
    /\ filtered_distilleries = <<>>
    /\ filtered_regions = <<>>
    /\ result = "running"
    /\ error = ""
    /\ pc = "load"

current_focus == ScoresOf(data.rows, attendee_name)

Raise(e) == error' = e /\ pc' = "except"

\* lines 162-172
LoadData ==
    /\ pc = "load"
    /\ data' = load_whisky_data(report_opts)
    /\ IF data'.none
       THEN Raise("Failed to load whisky data")
       ELSE pc' = "filter" /\ UNCHANGED error
    /\ UNCHANGED <<workbook, aggregates, opts, views, disk, pdf, result>>

\* lines 175-215: the attendee's rows, the statistics and the aggregates
FilterAttendee ==
    /\ pc = "filter"
    /\ IF Len(current_focus) = 0
       THEN Raise("No data found for attendee")
       ELSE pc' = "trend_chart" /\ UNCHANGED error
    /\ UNCHANGED <<workbook, aggregates, opts, data, views, disk, pdf, result>>

\* lines 218-244
TrendChart ==
    /\ pc = "trend_chart"
    /\ \/ /\ scores_over_time' = sort_by_whisky(current_focus)
          /\ moving_avg' = rolling_mean(sort_by_whisky(current_focus))
          /\ files' = files \cup {trend_chart}
          /\ pc' = "distillery_chart"
          /\ UNCHANGED error
       \/ /\ Raise("trend chart")
          /\ UNCHANGED <<scores_over_time, moving_avg, files>>
    /\ UNCHANGED <<workbook, aggregates, opts, data, attendee_name, min_common_whiskies,
                   correlations_df, differences_df, documents, pdf, result>>

\* lines 246-263
DistilleryChart ==
    /\ pc = "distillery_chart"
    /\ \/ /\ files' = files \cup {distillery_chart}
          /\ pc' = "region_chart"
          /\ UNCHANGED error
       \/ /\ Raise("distillery chart")
          /\ UNCHANGED files
    /\ UNCHANGED <<workbook, aggregates, opts, data, views, documents, pdf, result>>

\* lines 265-282
RegionChart ==
    /\ pc = "region_chart"
    /\ \/ /\ files' = files \cup {region_chart}
          /\ pc' = "views"
          /\ UNCHANGED error
       \/ /\ Raise("region chart")
          /\ UNCHANGED files
    /\ UNCHANGED <<workbook, aggregates, opts, data, views, documents, pdf, result>>

\* lines 284-286
ComputeViews ==
    /\ pc = "views"
    /\ LET c == calculate_attendee_correlations(data.rows, attendee_name,
                                                report_min_common)
           d == find_largest_score_differences(data.rows, attendee_name)
       IN  IF c.raised
           THEN /\ Raise(c.exc)
                /\ UNCHANGED <<correlations_df, differences_df>>
           ELSE IF d.raised
           THEN /\ Raise(d.exc)
                /\ correlations_df' = c
                /\ UNCHANGED differences_df
           ELSE /\ correlations_df' = c
                /\ differences_df' = d
                /\ pc' = "pdf"
                /\ UNCHANGED error
    /\ UNCHANGED <<workbook, aggregates, opts, data, attendee_name, min_common_whiskies,
                   scores_over_time, moving_avg, disk, pdf, result>>

\* lines 288-555
AssemblePdf ==
    /\ pc = "pdf"
    /\ \/ pc' = "output" /\ UNCHANGED error
       \/ Raise("pdf assembly")
    /\ UNCHANGED <<workbook, aggregates, opts, data, views, disk, pdf, result>>

\* lines 557-559
OutputPdf ==
    /\ pc = "output"
    /\ \/ /\ documents' = documents \cup {output_filename(attendee_name)}
          /\ pc' = "cleanup"
          /\ UNCHANGED error
       \/ /\ Raise("pdf output")
          /\ UNCHANGED documents
    /\ UNCHANGED <<workbook, aggregates, opts, data, views, files, pdf, result>>

\* lines 561-565
CleanupAndReturn ==
    /\ pc = "cleanup"
    /\ files' = files \ {distillery_chart, region_chart, trend_chart}
    /\ result' = output_filename(attendee_name)
    /\ pc' = "done"
    /\ UNCHANGED <<workbook, aggregates, opts, data, views, documents, pdf, error>>

\* lines 567-569
Except ==
    /\ pc = "except"
    /\ result' = except_returns(attendee_name)
    /\ pc' = "done"
    /\ UNCHANGED <<workbook, aggregates, opts, data, views, disk, pdf, error>>

NextReport ==
    \/ LoadData
    \/ FilterAttendee
    \/ TrendChart
    \/ DistilleryChart
    \/ RegionChart
    \/ ComputeViews
    \/ AssemblePdf
    \/ OutputPdf
    \/ CleanupAndReturn
    \/ Except

SpecReport == InitReport /\ [][NextReport]_vars

-----------------------------------------------------------------------------
(* Properties of generate_personal_whisky_report. *)

charts == {trend_chart, distillery_chart, region_chart}

Returned_Report == pc = "done"

\* C8: on every exit path of generate_personal_whisky_report no chart image
\* written by the run (trend, distillery, region) remains when the function
\* returns, also after a failure that follows the writing of a chart.
C8_ChartsReleasedOnEveryExit ==
    Returned_Report => files \cap charts = {}

\* C9: a missing source file, a failed load or a requested attendee with no
\* rows in the loaded table makes the function return None with no output
\* document written; a document path is returned only when no step raised,
\* and it is then the path of the document the run wrote.
C9_ErrorsAreTerminal ==
    Returned_Report =>
        /\ (~file_exists \/ data.none \/ Len(current_focus) = 0) =>
                result = "None" /\ documents = {} /\ error # ""
        /\ error # "" => result = "None"
        /\ result # "None" =>
                /\ error = ""
                /\ ~data.none
                /\ Len(current_focus) > 0
                /\ scores_over_time = sort_by_whisky(current_focus)
                /\ ~correlations_df.raised /\ correlations_df # NotCalled
                /\ ~differences_df.raised /\ differences_df # NotCalled
                /\ result = output_filename(attendee_name)
                /\ documents = {result}

\* C9: the load succeeded, the requested attendee has no row in the loaded
\* table, and the function has returned None without writing a document.
C9_Witness ==
    /\ Returned_Report
    /\ file_exists /\ ~data.none
    /\ Len(data.rows) > 0
    /\ Len(current_focus) = 0
    /\ error = "No data found for attendee"
    /\ result = "None"
    /\ documents = {}

-----------------------------------------------------------------------------
(* Two calls of generate_personal_whisky_report for different attendees    *)
(* running at the same time in one working directory.  Every variable that *)
(* is local to a call (attendee_name, pdf, result, error, pc) is here a     *)
(* function of the run.  A chart image on disk is a record of its name     *)
(* and of the run whose savefig wrote its content; a document is a record  *)
(* of its name and of the images embedded in it.  One step is one block of *)
(* the function up to and including its file-system call.                  *)

Runs == {1, 2}

RunAttendee == [r \in Runs |-> IF r = 1 THEN "A" ELSE "B"]

\* lines 243, 262, 281: savefig creates the file or replaces its content
savefig(fs, chart, r) ==
    {f \in fs : f.name # chart} \cup {[name |-> chart, by |-> r]}

\* lines 561-563: os.remove of each of the three names that exists
remove_charts(fs) ==
    {f \in fs : f.name \notin {distillery_chart, region_chart, trend_chart}}

\* A workbook on which each of the two reports succeeds when run alone:
\* A and B both scored the same report_min_common whiskies, differently.
InitParallel ==
    /\ file_exists = TRUE
    /\ sheets_ok = TRUE
    /\ guest_col = TRUE
    /\ scores_df = ClubScores(report_min_common, FALSE, FALSE)
    /\ whiskies_df = ClubWhiskies(report_min_common)
    /\ opts = report_opts
    /\ data = None
    /\ attendee_name = RunAttendee
    /\ min_common_whiskies = report_min_common
    /\ correlations_df = NotCalled
    /\ differences_df = NotCalled
    /\ scores_over_time = <<>>
    /\ moving_avg = <<>>
    /\ files = {}
    /\ documents = {}
    /\ pdf = [r \in Runs |-> {}]
    /\ min_distillery_count = default_min_distillery_count
    /\ filtered_distilleries = <<>>
    /\ filtered_regions = <<>>
    /\ result = [r \in Runs |-> "running"]
    /\ error = [r \in Runs |-> ""]
    /\ pc = [r \in Runs |-> "load"]

Goto(r, to) == pc' = [pc EXCEPT ![r] = to] /\ UNCHANGED error

RunRaise(r, e) ==
    /\ error' = [error EXCEPT ![r] = e]
    /\ pc' = [pc EXCEPT ![r] = "except"]

\* lines 162-172; the workbook does not change, both runs load the same table
RunLoadData(r) ==
    /\ pc[r] = "load"
    /\ data' = load_whisky_data(report_opts)
    /\ IF data'.none
       THEN RunRaise(r, "Failed to load whisky data")
       ELSE Goto(r, "filter")
    /\ UNCHANGED <<workbook, aggregates, opts, views, disk, pdf, result>>

\* lines 175-215
RunFilterAttendee(r) ==
    /\ pc[r] = "filter"
    /\ IF Len(ScoresOf(data.rows, attendee_name[r])) = 0
       THEN RunRaise(r, "No data found for attendee")
       ELSE Goto(r, "trend_chart")
    /\ UNCHANGED <<workbook, aggregates, opts, data, views, disk, pdf, result>>

\* lines 218-244
RunTrendChart(r) ==
    /\ pc[r] = "trend_chart"
    /\ files' = savefig(files, trend_chart, r)
    /\ Goto(r, "distillery_chart")
    /\ UNCHANGED <<workbook, aggregates, opts, data, views, documents, pdf, result>>

\* lines 246-263
RunDistilleryChart(r) ==
    /\ pc[r] = "distillery_chart"
    /\ files' = savefig(files, distillery_chart, r)
    /\ Goto(r, "region_chart")
    /\ UNCHANGED <<workbook, aggregates, opts, data, views, documents, pdf, result>>

\* lines 265-282
RunRegionChart(r) ==
    /\ pc[r] = "region_chart"
    /\ files' = savefig(files, region_chart, r)
    /\ Goto(r, "views")
    /\ UNCHANGED <<workbook, aggregates, opts, data, views, documents, pdf, result>>

\* lines 284-286
RunComputeViews(r) ==
    /\ pc[r] = "views"
    /\ LET c == calculate_attendee_correlations(data.rows, attendee_name[r],
                                                report_min_common)
           d == find_largest_score_differences(data.rows, attendee_name[r])
       IN  IF c.raised THEN RunRaise(r, c.exc)
           ELSE IF d.raised THEN RunRaise(r, d.exc)
           ELSE Goto(r, "trend_image")
    /\ UNCHANGED <<workbook, aggregates, opts, data, views, disk, pdf, result>>

\* pdf.image(name): reads the file of that name as it is now, or raises
image(r, chart, to) ==
    IF \E f \in files : f.name = chart
    THEN /\ pdf' = [pdf EXCEPT ![r] = @ \cup {f \in files : f.name = chart}]
         /\ Goto(r, to)
    ELSE /\ RunRaise(r, "FileNotFoundError")
         /\ UNCHANGED pdf

\* lines 288-313
RunTrendImage(r) ==
    /\ pc[r] = "trend_image"
    /\ image(r, trend_chart, "distillery_image")
    /\ UNCHANGED <<workbook, aggregates, opts, data, views, disk, result>>

\* lines 315-321
RunDistilleryImage(r) ==
    /\ pc[r] = "distillery_image"
    /\ image(r, distillery_chart, "region_image")
    /\ UNCHANGED <<workbook, aggregates, opts, data, views, disk, result>>

\* lines 323-373
RunRegionImage(r) ==
    /\ pc[r] = "region_image"
    /\ image(r, region_chart, "output")
    /\ UNCHANGED <<workbook, aggregates, opts, data, views, disk, result>>

\* lines 375-559
RunOutputPdf(r) ==
    /\ pc[r] = "output"
    /\ documents' = {d \in documents : d.name # output_filename(attendee_name[r])}
                    \cup {[name |-> output_filename(attendee_name[r]),
                           images |-> pdf[r]]}
    /\ Goto(r, "cleanup")
    /\ UNCHANGED <<workbook, aggregates, opts, data, views, files, pdf, result>>

\* lines 561-565
RunCleanupAndReturn(r) ==
    /\ pc[r] = "cleanup"
    /\ files' = remove_charts(files)
    /\ result' = [result EXCEPT ![r] = output_filename(attendee_name[r])]
    /\ pc' = [pc EXCEPT ![r] = "done"]
    /\ UNCHANGED <<workbook, aggregates, opts, data, views, documents, pdf, error>>

\* lines 567-569
RunExcept(r) ==
    /\ pc[r] = "except"
    /\ result' = [result EXCEPT ![r] = except_returns(attendee_name[r])]
    /\ pc' = [pc EXCEPT ![r] = "done"]
    /\ UNCHANGED <<workbook, aggregates, opts, data, views, disk, pdf, error>>

NextParallel ==
    \E r \in Runs :
        \/ RunLoadData(r)
        \/ RunFilterAttendee(r)
        \/ RunTrendChart(r)
        \/ RunDistilleryChart(r)
        \/ RunRegionChart(r)
        \/ RunComputeViews(r)
        \/ RunTrendImage(r)
        \/ RunDistilleryImage(r)
        \/ RunRegionImage(r)
        \/ RunOutputPdf(r)
        \/ RunCleanupAndReturn(r)
        \/ RunExcept(r)

SpecParallel == InitParallel /\ [][NextParallel]_vars

-----------------------------------------------------------------------------
(* Properties of parallel runs. *)

\* the three charts as run r itself rendered them
OwnCharts(r) ==
    {[name |-> c, by |-> r] : c \in {trend_chart, distillery_chart, region_chart}}

\* run r returned the name of a document that embeds exactly its own charts
Succeeded(r) ==
    /\ result[r] = output_filename(attendee_name[r])
    /\ \E d \in documents : d.name = result[r] /\ d.images = OwnCharts(r)

\* A run whose whole execution does not overlap the other's succeeds.
AloneSucceeds ==
    \A r \in Runs : \A o \in Runs \ {r} :
        (pc[r] = "done" /\ pc[o] = "load") => Succeeded(r)

\* C11: two reports for different attendees run in parallel do not interfere:
\* under every interleaving each run that has returned has returned its
\* document, and the document embeds the charts of that run only.
C11_ParallelRunsDoNotInterfere ==
    \A r \in Runs : pc[r] = "done" => Succeeded(r)

-----------------------------------------------------------------------------
(* The distillery and region aggregates of generate_personal_whisky_report, *)
(* src/whisky_report_generator.py:194-215.  A group table has one row per   *)
(* group: the group's key under the name of the grouping column, avg_score  *)
(* as the pair <<sum, count>> and whisky_count.  The groups are listed in   *)
(* order of first appearance; nothing below depends on their order.         *)

\* groupby(col).agg({'Whisky_Score': ['mean', 'count']}).reset_index(), with
\* the columns renamed (lines 194-197, 205-208); a NaN key forms no group
groupby_agg(rows, col) ==
    LET keys == SelectSeq(unique([k \in 1..Len(rows) |-> rows[k][col]]),
                          LAMBDA v : ~isna(v))
        group(v) == SelectSeq(rows, LAMBDA r : r[col] = v)
    IN  [k \in 1..Len(keys) |->
            (col :> keys[k]) @@
            [avg_score |-> <<SumScores(group(keys[k])), Len(group(keys[k]))>>,
             whisky_count |-> Len(group(keys[k]))]]

\* line 201: the literal 5
distillery_count_literal == 5

\* line 201: top_distilleries['whisky_count'] >= 5
filter_distilleries(focus) ==
    SelectSeq(groupby_agg(focus, "Whisky_Distillery"),
              LAMBDA g : g.whisky_count >= distillery_count_literal)

\* line 209: head(10)
head_regions == 10

CountBefore(x, y) == x.whisky_count > y.whisky_count

\* line 209: sort_values('whisky_count', ascending=False).head(10)
top_regions(focus) ==
    LET sorted == sort_values(groupby_agg(focus, "Whisky_Region"), CountBefore)
    IN  SubSeq(sorted, 1, Min(head_regions, Len(sorted)))

\* line 213: top_regions['whisky_count'] > min_distillery_count
filter_regions(focus, m) ==
    SelectSeq(top_regions(focus), LAMBDA g : g.whisky_count > m)

MaxFocusRows == 6

MinCounts == {2, default_min_distillery_count}

FocusRows ==
    {[Attendee |-> "A", Whisky_Distillery |-> <<d>>, Whisky_Region |-> g,
      Whisky_Score |-> 8] :
        d \in {"Ardbeg", "Lagavulin"}, g \in {<<"Islay">>, <<"Speyside">>, NaN}}
    \cup {[Attendee |-> "B", Whisky_Distillery |-> <<"Ardbeg">>,
           Whisky_Region |-> <<"Islay">>, Whisky_Score |-> 8]}

InitAggregates ==
    /\ file_exists = TRUE
    /\ sheets_ok = TRUE
    /\ guest_col = FALSE
    /\ scores_df = <<>>
    /\ whiskies_df = <<>>
    /\ opts = report_opts
    /\ \E rows \in SeqsUpTo(FocusRows, MaxFocusRows) : data = Frame(rows)
    /\ NoViews
    /\ pc = "call"

\* lines 175-178 and 194-215, called with attendee "A"
Aggregate ==
    /\ pc = "call"
    /\ Len(ScoresOf(data.rows, "A")) > 0
    /\ attendee_name' = "A"
    /\ \E m \in MinCounts :
        /\ min_distillery_count' = m
        /\ filtered_distilleries' = filter_distilleries(ScoresOf(data.rows, "A"))
        /\ filtered_regions' = filter_regions(ScoresOf(data.rows, "A"), m)
    /\ pc' = "aggregated"
    /\ UNCHANGED <<workbook, opts, data, min_common_whiskies, correlations_df,
                   differences_df, scores_over_time, moving_avg, disk, pdf,
                   result, error>>

NextAggregates == Aggregate

SpecAggregates == InitAggregates /\ [][NextAggregates]_vars

-----------------------------------------------------------------------------
(* Properties of the aggregates. *)

\* the groups of the attendee's rows by a column, and their row counts
GroupsOf(col) == {r[col] : r \in Range(current_focus)} \ {NaN}
CountIn(col, v) == Len(SelectSeq(current_focus, LAMBDA r : r[col] = v))
KeptKeys(t, col) == {g[col] : g \in Range(t)}

\* C12: in the distillery and in the region aggregate a group is kept for the
\* top/bottom selection exactly when the attendee's row count in the group is
\* at least min_distillery_count; a group whose count equals it is kept.
C12_GroupsMeetingMinimumKept ==
    pc = "aggregated" =>
        /\ KeptKeys(filtered_distilleries, "Whisky_Distillery")
            = {v \in GroupsOf("Whisky_Distillery") :
                    CountIn("Whisky_Distillery", v) >= min_distillery_count}
        /\ KeptKeys(filtered_regions, "Whisky_Region")
            = {v \in GroupsOf("Whisky_Region") :
                    CountIn("Whisky_Region", v) >= min_distillery_count}

-----------------------------------------------------------------------------
(* Further properties of find_largest_score_differences. *)

TargetRows(id) ==
    SelectSeq(data.rows, LAMBDA r : r.Attendee = attendee_name /\ r.Whisky_ID = id)

OtherRows(id) ==
    SelectSeq(data.rows, LAMBDA r : r.Attendee # attendee_name /\ r.Whisky_ID = id)

\* the largest |target_score - other score| over the other rows of a whisky
LargestDifference(target_score, id) ==
    LET diffs == {Abs(target_score - o.Whisky_Score) : o \in Range(OtherRows(id))}
    IN  CHOOSE m \in diffs : \A x \in diffs : x <= m

\* the position, among the other rows of a whisky, of the first row at the
\* largest difference
FirstAtLargest(target_score, id) ==
    MinOf({k \in DOMAIN OtherRows(id) :
            Abs(target_score - OtherRows(id)[k].Whisky_Score)
                = LargestDifference(target_score, id)})

\* C13: in find_largest_score_differences a whisky on which every other
\* attendee's score equals the target's score, or which no other attendee
\* scored, produces no row; the row of a whisky is against the first row, in
\* table order, among the other attendees' rows at the largest absolute
\* difference; and the rows are in descending order of Absolute_Difference.
C13_FirstLargestNonZeroDescending ==
    pc = "differences" =>
        LET rows == differences_df.rows
        IN  /\ \A id \in IdsOf(data.rows) :
                (\A t \in Range(TargetRows(id)) : \A o \in Range(OtherRows(id)) :
                    o.Whisky_Score = t.Whisky_Score)
                => \A i \in DOMAIN rows : rows[i].Whisky_ID # id
            /\ \A i \in DOMAIN rows :
                LET id == rows[i].Whisky_ID
                    first == OtherRows(id)[FirstAtLargest(rows[i].Target_Score, id)]
                IN  /\ rows[i].Target_Score = TargetRows(id)[1].Whisky_Score
                    /\ rows[i].Absolute_Difference
                        = LargestDifference(rows[i].Target_Score, id)
                    /\ rows[i].Absolute_Difference > 0
                    /\ rows[i].Other_Attendee = first.Attendee
                    /\ rows[i].Other_Score = first.Whisky_Score
            /\ \A i, j \in DOMAIN rows :
                i < j => rows[i].Absolute_Difference >= rows[j].Absolute_Difference

\* C13: the target scored two whiskies; on one of them a later attendee ties
\* with the reported one for the largest difference, on the other the only
\* other score equals the target's, and the table has the one row.
C13_Witness ==
    /\ pc = "differences"
    /\ ~differences_df.raised
    /\ Len(differences_df.rows) = 1
    /\ LET row == differences_df.rows[1]
           id == row.Whisky_ID
       IN  /\ \E k \in DOMAIN OtherRows(id) :
                /\ k > FirstAtLargest(row.Target_Score, id)
                /\ OtherRows(id)[k].Attendee # row.Other_Attendee
                /\ Abs(row.Target_Score - OtherRows(id)[k].Whisky_Score)
                    = row.Absolute_Difference
           /\ \E other \in IdsOf(data.rows) \ {id} :
                /\ TargetRows(other) # <<>>
                /\ OtherRows(other) # <<>>
                /\ \A o \in Range(OtherRows(other)) :
                    o.Whisky_Score = TargetRows(other)[1].Whisky_Score

-----------------------------------------------------------------------------
(* Further properties of load_whisky_data. *)

\* the whiskies with a row of the region in a table
ItemsOfRegion(d, reg) ==
    {d[k].Whisky_ID : k \in {j \in DOMAIN d : d[j].Whisky_Region = reg}}

\* which score row, whisky and region each row of a table is
Where(d) == [k \in 1..Len(d) |-> <<d[k].src, d[k].Whisky_ID, d[k].Whisky_Region>>]

\* C14: with min_whiskies_per_region = m > 0 every returned row is of a region
\* with at least m distinct whiskies among the rows left by guest removal,
\* region exclusion and outlier removal; the returned rows are all the rows
\* of those regions and no row of another region; and they are the same
\* rows whether or not the missing ages are filled.
C14_RegionsWithEnoughWhiskies ==
    (Returned /\ opts.min_whiskies_per_region > 0) =>
        LET m == opts.min_whiskies_per_region
            d == data.rows
            pre == BeforeRescale(opts)
            enough(reg) == ~isna(reg) /\ Cardinality(ItemsOfRegion(pre, reg)) >= m
        IN  /\ \A k \in DOMAIN d : enough(d[k].Whisky_Region)
            /\ Where(d) = Where(SelectSeq(pre, LAMBDA r : enough(r.Whisky_Region)))
            /\ Where(d) = Where(load_whisky_data(
                    [opts EXCEPT !.fill_missing_age = ~opts.fill_missing_age]).rows)

\* C14: a region with exactly m = 2 whiskies is returned, one of them without
\* an age, which the call fills.
C14_Witness ==
    /\ Returned
    /\ opts.min_whiskies_per_region = 2
    /\ opts.fill_missing_age
    /\ data.rows # <<>>
    /\ \A k \in DOMAIN data.rows :
        Cardinality(ItemsOfRegion(BeforeRescale(opts), data.rows[k].Whisky_Region)) = 2
    /\ \E k \in DOMAIN data.rows : data.rows[k].Age_Missing = 1

-----------------------------------------------------------------------------
(* Completion of the two views. *)

\* C15: for every table and every attendee with at least one row,
\* calculate_attendee_correlations and find_largest_score_differences return
\* a table, an empty one when nothing qualifies; neither raises.
C15_ViewsCompleteWhenEmpty ==
    (pc \in {"correlations", "differences"} /\ Len(current_focus) > 0) =>
        /\ ~correlations_df.raised
        /\ ~differences_df.raised

=============================================================================
